---- MODULE Spec2Model ----
(***************************************************************************)
(* A model of the reddit-meme-scraper: the pure helpers of utils.ts        *)
(* (extractTickers, determinePostType, getMediaUrl, isMemePost), the       *)
(* RedditMemeScraper class (constructor, fetchMemes, fetchFromSubreddit,   *)
(* shouldIncludePost, convertToMemePost, getTrendingTickers) and the main  *)
(* function of index.ts.                                                   *)
(*                                                                         *)
(* Strings are sequences of one-character strings, so that the regular     *)
(* expressions and the substring tests of the code are computed and not    *)
(* assumed.                                                                *)
(***************************************************************************)
EXTENDS Integers, Sequences, FiniteSets, TLC

VARIABLES
    config,          \* this.config, set by the constructor
    feed,            \* the raw posts each subreddit holds: what getHot may deliver
    pc,              \* the control point of the caller and of fetchMemes
    caller,          \* who awaits fetchMemes: "api", "main" or "getTrendingTickers"
    cursor,          \* fetchMemes: the position of the for-of iterator in config.subreddits
    allMemes,        \* fetchMemes: its local array
    outstanding,     \* the getHot requests issued and not yet settled
    requests,        \* every getHot request issued in the run, in order
    delivered,       \* per source of the current fetchMemes call, what getHot settled with
    errors,          \* the console.error lines of the current fetchMemes call
    result,          \* what the last fetchMemes call returned
    raised,          \* TRUE when fetchMemes rejected instead of returning
    memes,           \* main: const memes
    trendingTickers, \* main: const trendingTickers
    output,          \* main: the object written to memes-output.json
    fnPc,            \* "call" before the pure function under test is applied, "return" after
    arg,             \* the argument of the pure function under test
    ret              \* its result, once fnPc = "return"

aggVars == <<config, feed, pc, caller, cursor, allMemes, outstanding, requests, delivered,
             errors, result, raised, memes, trendingTickers, output>>

fnVars == <<fnPc, arg, ret>>

vars == <<aggVars, fnVars>>

\* JavaScript's undefined / null, for a field a raw record does not carry.
Absent == "undefined"

(***************************************************************************)
(* Characters and strings                                                  *)
(***************************************************************************)
UpperSeq == <<"A","B","C","D","E","F","G","H","I","J","K","L","M",
              "N","O","P","Q","R","S","T","U","V","W","X","Y","Z">>
LowerSeq == <<"a","b","c","d","e","f","g","h","i","j","k","l","m",
              "n","o","p","q","r","s","t","u","v","w","x","y","z">>
Digits == {"0","1","2","3","4","5","6","7","8","9"}

Range(s) == {s[k] : k \in DOMAIN s}

\* [A-Z]
IsUpper(c) == c \in Range(UpperSeq)

\* \w of a regular expression without the u flag: [A-Za-z0-9_]
IsWordChar(c) == c \in Range(UpperSeq) \cup Range(LowerSeq) \cup Digits \cup {"_"}

\* String.prototype.toLowerCase, on the ASCII letters
ToLowerChar(c) ==
    IF IsUpper(c) THEN LowerSeq[CHOOSE k \in DOMAIN UpperSeq : UpperSeq[k] = c] ELSE c

toLowerCase(s) == [k \in DOMAIN s |-> ToLowerChar(s[k])]

\* String.prototype.toUpperCase, on the ASCII letters
ToUpperChar(c) ==
    IF c \in Range(LowerSeq) THEN UpperSeq[CHOOSE k \in DOMAIN LowerSeq : LowerSeq[k] = c] ELSE c

toUpperCase(s) == [k \in DOMAIN s |-> ToUpperChar(s[k])]

\* s ends with suffix: what the regular expression /suffix$/ tests
EndsWith(s, suffix) ==
    /\ Len(suffix) <= Len(s)
    /\ SubSeq(s, Len(s) - Len(suffix) + 1, Len(s)) = suffix

\* String.prototype.includes
includes(s, part) ==
    \E k \in 0..(Len(s) - Len(part)) : SubSeq(s, k + 1, k + Len(part)) = part

(***************************************************************************)
(* extractTickers (utils.ts): /\$([A-Z]{1,5})\b/g, matchAll, a Set         *)
(***************************************************************************)
\* {1,5}: the most letters a ticker holds
MaxTickerLen == 5

\* \b between text[q] and text[q+1]: exactly one of the two is a word
\* character (the ends of the text count as non-word)
WordBoundary(text, q) ==
    LET left  == q >= 1 /\ q <= Len(text) /\ IsWordChar(text[q])
        right == q + 1 >= 1 /\ q + 1 <= Len(text) /\ IsWordChar(text[q + 1])
    IN  left # right

\* The lengths k for which \$([A-Z]{k})\b matches at position p
MatchLengths(text, p) ==
    {k \in 1..MaxTickerLen :
        /\ p + k <= Len(text)
        /\ \A j \in 1..k : IsUpper(text[p + j])
        /\ WordBoundary(text, p + k)}

\* One attempt of the regular expression at position p: the number of
\* letters captured (the quantifier is greedy: the longest that lets \b
\* match), 0 when the attempt fails.
MatchAt(text, p) ==
    IF p > Len(text) \/ text[p] # "$" THEN 0
    ELSE LET ks == MatchLengths(text, p)
         IN  IF ks = {} THEN 0 ELSE CHOOSE k \in ks : \A m \in ks : m <= k

\* text.matchAll(tickerRegex): the captures of the successive matches, the
\* search resuming after each match and one character further after a failure
RECURSIVE MatchAll(_, _)
MatchAll(text, from) ==
    IF from > Len(text) THEN << >>
    ELSE LET k == MatchAt(text, from)
         IN  IF k = 0 THEN MatchAll(text, from + 1)
             ELSE <<SubSeq(text, from + 1, from + k)>> \o MatchAll(text, from + k + 1)

\* new Set() filled by add in order, then Array.from: the first occurrence
\* of every value, in insertion order
RECURSIVE SetInsertionOrder(_)
SetInsertionOrder(s) ==
    IF s = << >> THEN << >>
    ELSE LET front == SetInsertionOrder(SubSeq(s, 1, Len(s) - 1))
             last  == s[Len(s)]
         IN  IF last \in Range(front) THEN front ELSE Append(front, last)

\* extractTickers with the matches collected in an array, not in a Set
extractTickersNoSet(text) == MatchAll(text, 1)

extractTickers(text) == SetInsertionOrder(MatchAll(text, 1))

(***************************************************************************)
(* Raw posts (snoowrap Submission, read as `any`)                          *)
(*                                                                         *)
(* A field that a record may lack is a sequence of length at most one:     *)
(* None for undefined/null, Some(v) for a value.                           *)
(***************************************************************************)
None == << >>
Some(v) == <<v>>
IsSome(m) == m # << >>
Get(m) == m[1]

\* JavaScript truthiness of an optional boolean flag (if (post.is_gallery))
Truthy(m) == m = Some(TRUE)

\* JavaScript truthiness of an optional string: present and not ''
TruthyStr(m) == IsSome(m) /\ Get(m) # << >>

(***************************************************************************)
(* determinePostType (utils.ts)                                            *)
(***************************************************************************)
ExtGif  == <<".","g","i","f">>
ExtGifv == <<".","g","i","f","v">>
ExtJpg  == <<".","j","p","g">>
ExtJpeg == <<".","j","p","e","g">>
ExtPng  == <<".","p","n","g">>
ExtWebp == <<".","w","e","b","p">>
ExtMp4  == <<".","m","p","4">>
ExtWebm == <<".","w","e","b","m">>
ExtMov  == <<".","m","o","v">>

MarkerIReddIt == <<"i",".","r","e","d","d",".","i","t">>
MarkerImgur   == <<"i",".","i","m","g","u","r",".","c","o","m">>
MarkerVReddIt == <<"v",".","r","e","d","d",".","i","t">>

\* post.url?.toLowerCase() || ''
LowerUrl(post) == IF IsSome(post.url) THEN toLowerCase(Get(post.url)) ELSE << >>

\* determinePostType with the URL extension tested before the post hint
determinePostTypeExtensionFirst(post) ==
    LET url == LowerUrl(post)
    IN  IF Truthy(post.is_gallery) THEN "gallery"
        ELSE IF EndsWith(url, ExtGif) \/ EndsWith(url, ExtGifv) THEN "gif"
        ELSE IF \/ EndsWith(url, ExtJpg) \/ EndsWith(url, ExtJpeg)
                \/ EndsWith(url, ExtPng) \/ EndsWith(url, ExtWebp) THEN "image"
        ELSE IF EndsWith(url, ExtMp4) \/ EndsWith(url, ExtWebm) \/ EndsWith(url, ExtMov)
             THEN "video"
        ELSE IF post.post_hint = "image" THEN "image"
        ELSE IF post.post_hint = "hosted:video" \/ post.post_hint = "rich:video" THEN "video"
        ELSE IF includes(url, MarkerIReddIt) \/ includes(url, MarkerImgur) THEN "image"
        ELSE IF includes(url, MarkerVReddIt) THEN "video"
        ELSE "link"

determinePostType(post) ==
    LET url == LowerUrl(post)
    IN  IF Truthy(post.is_gallery) THEN "gallery"
        ELSE IF post.post_hint = "image" THEN "image"
        ELSE IF post.post_hint = "hosted:video" \/ post.post_hint = "rich:video" THEN "video"
        ELSE IF EndsWith(url, ExtGif) \/ EndsWith(url, ExtGifv) THEN "gif"
        ELSE IF \/ EndsWith(url, ExtJpg) \/ EndsWith(url, ExtJpeg)
                \/ EndsWith(url, ExtPng) \/ EndsWith(url, ExtWebp) THEN "image"
        ELSE IF EndsWith(url, ExtMp4) \/ EndsWith(url, ExtWebm) \/ EndsWith(url, ExtMov)
             THEN "video"
        ELSE IF includes(url, MarkerIReddIt) \/ includes(url, MarkerImgur) THEN "image"
        ELSE IF includes(url, MarkerVReddIt) THEN "video"
        ELSE "link"

\* isMemePost (utils.ts)
isMemePost(post) == determinePostType(post) \in {"image", "gif", "video", "gallery"}

(***************************************************************************)
(* getMediaUrl (utils.ts)                                                  *)
(***************************************************************************)
Amp == <<"&","a","m","p",";">>

\* s.replace(/&amp;/g, '&')
RECURSIVE UnescapeAmp(_)
UnescapeAmp(s) ==
    IF s = << >> THEN << >>
    ELSE IF Len(s) >= Len(Amp) /\ SubSeq(s, 1, Len(Amp)) = Amp
         THEN <<"&">> \o UnescapeAmp(SubSeq(s, Len(Amp) + 1, Len(s)))
         ELSE <<s[1]>> \o UnescapeAmp(SubSeq(s, 2, Len(s)))

\* getMediaUrl with the preview image taken before the video fallback
getMediaUrlPreviewFirst(post) ==
    IF TruthyStr(post.url) /\ (post.post_hint = "image" \/ Truthy(post.is_video))
    THEN post.url
    ELSE IF TruthyStr(post.preview_url) THEN Some(UnescapeAmp(Get(post.preview_url)))
    ELSE IF TruthyStr(post.fallback_url) THEN post.fallback_url
    ELSE IF /\ Truthy(post.is_gallery)
            /\ IsSome(post.media_metadata)
            /\ Get(post.media_metadata) # << >>
            /\ TruthyStr(Get(post.media_metadata)[1])
         THEN Some(UnescapeAmp(Get(Get(post.media_metadata)[1])))
    ELSE None

\* The fields read: url, post_hint, is_video, fallback_url (for
\* media?.reddit_video?.fallback_url), preview_url (for
\* preview?.images?.[0]?.source?.url), is_gallery and media_metadata (the
\* s?.u of the items, in the insertion order Object.keys gives).
getMediaUrl(post) ==
    IF TruthyStr(post.url) /\ (post.post_hint = "image" \/ Truthy(post.is_video))
    THEN post.url
    ELSE IF TruthyStr(post.fallback_url) THEN post.fallback_url
    ELSE IF TruthyStr(post.preview_url) THEN Some(UnescapeAmp(Get(post.preview_url)))
    ELSE IF /\ Truthy(post.is_gallery)
            /\ IsSome(post.media_metadata)
            /\ Get(post.media_metadata) # << >>
            /\ TruthyStr(Get(post.media_metadata)[1])
         THEN Some(UnescapeAmp(Get(Get(post.media_metadata)[1])))
    ELSE None

(***************************************************************************)
(* RedditMemeScraper (scraper.ts): configuration and per-post functions    *)
(***************************************************************************)
DefaultSubreddits == <<"wallstreetbets">>
DefaultMinUpvotes == 100
DefaultMinComments == 0
DefaultLimit == 50

\* The constructor's defaults, on a Partial<ScraperConfig> whose fields are
\* optional: `||` replaces a falsy value (undefined, 0), `??` only undefined.
\* An array is truthy even when empty, so an empty subreddit list is kept.
Constructor(partial) ==
    [subreddits  |-> IF IsSome(partial.subreddits) THEN Get(partial.subreddits)
                     ELSE DefaultSubreddits,
     minUpvotes  |-> IF IsSome(partial.minUpvotes) THEN Get(partial.minUpvotes)
                     ELSE DefaultMinUpvotes,
     minComments |-> IF IsSome(partial.minComments) THEN Get(partial.minComments)
                     ELSE DefaultMinComments,
     timeframe   |-> IF IsSome(partial.timeframe) THEN Get(partial.timeframe) ELSE "day",
     limit       |-> IF IsSome(partial.limit) /\ Get(partial.limit) # 0
                     THEN Get(partial.limit) ELSE DefaultLimit,
     includeNSFW |-> IF IsSome(partial.includeNSFW) THEN Get(partial.includeNSFW)
                     ELSE TRUE]

\* shouldIncludePost with <= for < in the upvote threshold
shouldIncludePostOffByOne(post, cfg) ==
    IF ~isMemePost(post) THEN FALSE
    ELSE IF post.over_18 /\ ~cfg.includeNSFW THEN FALSE
    ELSE IF post.score <= cfg.minUpvotes THEN FALSE
    ELSE IF post.num_comments < cfg.minComments THEN FALSE
    ELSE TRUE

\* shouldIncludePost without the check of the adult flag
shouldIncludePostAnyAdult(post, cfg) ==
    IF ~isMemePost(post) THEN FALSE
    ELSE IF post.score < cfg.minUpvotes THEN FALSE
    ELSE IF post.num_comments < cfg.minComments THEN FALSE
    ELSE TRUE

shouldIncludePost(post, cfg) ==
    IF ~isMemePost(post) THEN FALSE
    ELSE IF post.over_18 /\ ~cfg.includeNSFW THEN FALSE
    ELSE IF post.score < cfg.minUpvotes THEN FALSE
    ELSE IF post.num_comments < cfg.minComments THEN FALSE
    ELSE TRUE

\* "https://reddit.com"
RedditBase == <<"h","t","t","p","s",":","/","/","r","e","d","d","i","t",".","c","o","m">>

\* convertToMemePost throws a TypeError at post.author.name when the record
\* has no author
ConvertThrows(post) == ~IsSome(post.author)

\* The title and the body joined with nothing between them
FullTextNoSeparator(post) ==
    post.title \o (IF IsSome(post.selftext) THEN Get(post.selftext) ELSE << >>)

\* `${post.title} ${post.selftext || ''}`
FullText(post) ==
    post.title \o <<" ">> \o (IF IsSome(post.selftext) THEN Get(post.selftext) ELSE << >>)

\* convertToMemePost, for a record it does not throw on
convertToMemePost(post, subredditName) ==
    [id         |-> post.id,
     title      |-> post.title,
     url        |-> RedditBase \o post.permalink,
     mediaUrl   |-> getMediaUrl(post),
     author     |-> Get(post.author).name,
     subreddit  |-> subredditName,
     createdAt  |-> post.created_utc * 1000,
     engagement |-> [upvotes     |-> post.score,
                     upvoteRatio |-> post.upvote_ratio,
                     comments    |-> post.num_comments,
                     awards      |-> IF IsSome(post.total_awards_received)
                                     THEN Get(post.total_awards_received) ELSE 0],
     tickers    |-> extractTickers(FullText(post)),
     postType   |-> determinePostType(post),
     isNSFW     |-> post.over_18]

\* The loop of fetchFromSubreddit over the fetched posts: the memes built
\* from the posts that pass the filter, in order
RECURSIVE FilterAndConvert(_, _, _)
FilterAndConvert(posts, subredditName, cfg) ==
    IF posts = << >> THEN << >>
    ELSE LET rest == FilterAndConvert(Tail(posts), subredditName, cfg)
         IN  IF shouldIncludePost(Head(posts), cfg)
             THEN <<convertToMemePost(Head(posts), subredditName)>> \o rest
             ELSE rest

\* The loop throws when a post that passes the filter cannot be converted
LoopThrows(posts, cfg) ==
    \E k \in DOMAIN posts : shouldIncludePost(posts[k], cfg) /\ ConvertThrows(posts[k])

(***************************************************************************)
(* Array.prototype.sort with (a, b) => b.key - a.key: stable (ES2019), so   *)
(* the result is the insertion of every element, in order, behind the      *)
(* elements whose key is not smaller                                       *)
(***************************************************************************)
\* The elements are entries [key, value].
\* The insertion in front of the elements of equal key: a sort that is not stable
InsertDescendingUnstable(sorted, x) ==
    LET n == Cardinality({k \in DOMAIN sorted : sorted[k].key > x.key})
    IN  SubSeq(sorted, 1, n) \o <<x>> \o SubSeq(sorted, n + 1, Len(sorted))

InsertDescending(sorted, x) ==
    LET n == Cardinality({k \in DOMAIN sorted : sorted[k].key >= x.key})
    IN  SubSeq(sorted, 1, n) \o <<x>> \o SubSeq(sorted, n + 1, Len(sorted))

RECURSIVE SortEntriesDescending(_)
SortEntriesDescending(s) ==
    IF s = << >> THEN << >>
    ELSE InsertDescending(SortEntriesDescending(SubSeq(s, 1, Len(s) - 1)), s[Len(s)])

\* allMemes.sort((a, b) => b.engagement.upvotes - a.engagement.upvotes)
SortByUpvotes(list) ==
    LET sorted == SortEntriesDescending(
                      [k \in DOMAIN list |->
                          [key |-> list[k].engagement.upvotes, value |-> list[k]]])
    IN  [k \in DOMAIN sorted |-> sorted[k].value]

(***************************************************************************)
(* getTrendingTickers: the tally, a Map in insertion order, sorted by      *)
(* count                                                                   *)
(***************************************************************************)
\* for (const meme of allMemes) for (const ticker of meme.tickers)
RECURSIVE FlattenTickers(_)
FlattenTickers(list) ==
    IF list = << >> THEN << >> ELSE Head(list).tickers \o FlattenTickers(Tail(list))

\* A table that puts a new key in front: not the insertion order of a Map
MapIncrementFront(entries, ticker) ==
    IF \E k \in DOMAIN entries : entries[k].ticker = ticker
    THEN [k \in DOMAIN entries |->
            IF entries[k].ticker = ticker
            THEN [entries[k] EXCEPT !.count = @ + 1] ELSE entries[k]]
    ELSE <<[ticker |-> ticker, count |-> 1]>> \o entries

\* tickerCounts.set(ticker, (tickerCounts.get(ticker) || 0) + 1): a Map is a
\* sequence of entries in the order of the first set of each key
MapIncrement(entries, ticker) ==
    IF \E k \in DOMAIN entries : entries[k].ticker = ticker
    THEN [k \in DOMAIN entries |->
            IF entries[k].ticker = ticker
            THEN [entries[k] EXCEPT !.count = @ + 1] ELSE entries[k]]
    ELSE Append(entries, [ticker |-> ticker, count |-> 1])

RECURSIVE CountTickers(_)
CountTickers(tickers) ==
    IF tickers = << >> THEN << >>
    ELSE MapIncrement(CountTickers(SubSeq(tickers, 1, Len(tickers) - 1)),
                      tickers[Len(tickers)])

\* new Map([...tickerCounts.entries()].sort((a, b) => b[1] - a[1]))
TrendingTickers(list) ==
    LET counts == CountTickers(FlattenTickers(list))
        sorted == SortEntriesDescending(
                      [k \in DOMAIN counts |-> [key |-> counts[k].count, value |-> counts[k]]])
    IN  [k \in DOMAIN sorted |-> sorted[k].value]

(***************************************************************************)
(* Raw posts the Fetch Service delivers                                    *)
(***************************************************************************)
Https == <<"h","t","t","p","s",":","/","/">>
HostOther == <<"x",".","c","o">>

\* "https://i.redd.it/a.jpg"
UrlRedditJpg == Https \o MarkerIReddIt \o <<"/","a">> \o ExtJpg
\* "https://x.co/b.GIF"
UrlOtherGif == Https \o HostOther \o <<"/","b",".","G","I","F">>
\* "https://x.co/c"
UrlOtherPage == Https \o HostOther \o <<"/","c">>
\* "https://x.co/p?a=1&amp;b=2"
UrlPreview == Https \o HostOther \o <<"/","p","?","a","=","1">> \o Amp \o <<"b","=","2">>

\* A text post of r/wallstreetbets: every field present, nothing visual
RawBase ==
    [id |-> "t3_base", title |-> <<"$","A">>, selftext |-> None,
     url |-> Some(UrlOtherPage), permalink |-> <<"/","r","/","0">>,
     is_gallery |-> None, post_hint |-> Absent, is_video |-> None,
     over_18 |-> FALSE, score |-> 2, num_comments |-> 0,
     total_awards_received |-> None, author |-> Some([name |-> "u1"]),
     created_utc |-> 1, upvote_ratio |-> 1,
     fallback_url |-> None, preview_url |-> None, media_metadata |-> None]

\* An image by its hint, "$A up", 2 upvotes
PostImage ==
    [RawBase EXCEPT !.id = "t3_img", !.post_hint = "image", !.url = Some(UrlRedditJpg),
                    !.title = <<"$","A"," ","u","p">>, !.permalink = <<"/","r","/","1">>]

\* A gif by its extension, "$B $A" with the body "$B", 2 upvotes, one award
PostGif ==
    [RawBase EXCEPT !.id = "t3_gif", !.url = Some(UrlOtherGif),
                    !.title = <<"$","B"," ","$","A">>, !.selftext = Some(<<"$","B">>),
                    !.total_awards_received = Some(1), !.num_comments = 1,
                    !.preview_url = Some(UrlPreview), !.permalink = <<"/","r","/","2">>]

\* An adult-flagged gallery, "yolo" with the body "$A", 3 upvotes
PostGallery ==
    [RawBase EXCEPT !.id = "t3_gal", !.is_gallery = Some(TRUE), !.over_18 = TRUE,
                    !.score = 3, !.title = <<"y","o","l","o">>,
                    !.selftext = Some(<<"$","A">>),
                    !.media_metadata = Some(<<Some(UrlPreview)>>),
                    !.permalink = <<"/","r","/","3">>]

\* A malformed record: an image with no author, 1 upvote
PostNoAuthor ==
    [RawBase EXCEPT !.id = "t3_mal", !.post_hint = "image", !.url = Some(UrlRedditJpg),
                    !.score = 1, !.author = None, !.permalink = <<"/","r","/","4">>]

\* A link to a page, 3 upvotes
PostLink ==
    [RawBase EXCEPT !.id = "t3_lnk", !.score = 3, !.permalink = <<"/","r","/","5">>]

RawPosts == {PostImage, PostGif, PostGallery, PostNoAuthor, PostLink}

\* index.ts: subreddits: ['wallstreetbets', 'stocks', 'investing', 'cryptocurrency']
SubredditNames == <<"wallstreetbets", "stocks", "investing", "cryptocurrency">>

\* The posts each subreddit holds while fetchMemes runs: two posts of equal
\* upvotes and the malformed one in the first, a post of equal upvotes, one
\* of more upvotes and a link in the second
Holdings ==
    [s \in Range(SubredditNames) |->
        CASE s = "wallstreetbets" -> {PostImage, PostGif, PostNoAuthor}
          [] s = "stocks"         -> {PostGif, PostGallery, PostLink}
          [] s = "investing"      -> {PostImage, PostNoAuthor}
          [] OTHER                -> {PostLink}]

\* The posts each subreddit holds while main runs
MainHoldings ==
    [s \in Range(SubredditNames) |->
        CASE s = "wallstreetbets" -> {PostImage, PostGif}
          [] s = "stocks"         -> {PostGif}
          [] s = "investing"      -> {PostImage}
          [] OTHER                -> {PostLink}]

\* What one getHot({limit}) may deliver out of the posts a subreddit holds: up
\* to limit posts, each once, in any order
Batches(posts, limit) ==
    LET most == IF limit < Cardinality(posts) THEN limit ELSE Cardinality(posts)
    IN  UNION {{s \in [1..n -> posts] : \A j, k \in 1..n : j # k => s[j] # s[k]} :
                  n \in 0..most}

(***************************************************************************)
(* Configurations given to the constructor                                 *)
(***************************************************************************)
\* The most subreddits configured
MaxSources == 2
\* The largest per-subreddit limit configured
MaxLimit == 2

SubredditLists == {SubSeq(SubredditNames, 1, n) : n \in 0..MaxSources}

PartialConfigs ==
    [subreddits  : {None} \cup {Some(l) : l \in SubredditLists},
     minUpvotes  : {Some(1), Some(2)},
     minComments : {None, Some(1)},
     timeframe   : {None},
     limit       : {Some(n) : n \in 1..MaxLimit},
     includeNSFW : {None, Some(FALSE)}]

\* The configurations of main, scaled down: index.ts names its subreddits,
\* a minimum of upvotes and a limit, and excludes adult content
MainPartialConfigs ==
    [subreddits  : {Some(SubSeq(SubredditNames, 1, n)) : n \in 1..MaxSources},
     minUpvotes  : {Some(1), Some(2)},
     minComments : {Some(0)},
     timeframe   : {Some("day")},
     limit       : {Some(n) : n \in 1..MaxLimit},
     includeNSFW : {Some(FALSE)}]

(***************************************************************************)
(* RedditMemeScraper.fetchMemes / fetchFromSubreddit, as steps             *)
(***************************************************************************)
\* The pure-function variables, while the scraper runs
FnIdle == fnPc = "idle" /\ arg = << >> /\ ret = << >>

\* The scraper's variables before any call
AggStart ==
    /\ cursor = 0
    /\ allMemes = << >>
    /\ outstanding = 0
    /\ requests = << >>
    /\ delivered = << >>
    /\ errors = << >>
    /\ result = << >>
    /\ raised = FALSE
    /\ memes = << >>
    /\ trendingTickers = << >>
    /\ output = None

\* A call of fetchMemes by `who`: const allMemes = [], and the for-of loop
\* over config.subreddits begins
EnterFetchMemes(who) ==
    /\ caller' = who
    /\ pc' = "loop"
    /\ cursor' = 0
    /\ allMemes' = << >>
    /\ delivered' = << >>
    /\ errors' = << >>

\* Where fetchMemes stands after it has called getHot: at the await, fire-and-forget
\* (the loop going on without awaiting)
NoAwait == "loop"

\* Where fetchMemes stands after it has called getHot: at the await, suspended
\* until the request settles
AwaitFetch == "await"

\* A listing chosen by the timeframe: top for a window other than the day
ListingByTimeframe(cfg) == IF cfg.timeframe = "day" THEN "hot" ELSE "top"

\* subreddit.getHot(...): the hot listing, whatever config.timeframe
Listing(cfg) == "hot"

\* The loop takes the next subreddit and fetchFromSubreddit calls
\* subreddit.getHot({limit}): one request leaves
IssueFetch ==
    /\ pc = "loop"
    /\ cursor < Len(config.subreddits)
    /\ cursor' = cursor + 1
    /\ requests' = Append(requests, [subreddit |-> config.subreddits[cursor + 1],
                                     listing   |-> Listing(config),
                                     limit     |-> config.limit])
    /\ outstanding' = outstanding + 1
    /\ pc' = AwaitFetch
    /\ UNCHANGED <<config, feed, caller, allMemes, delivered, errors, result, raised,
                   memes, trendingTickers, output, fnVars>>

\* No try/catch around the source: the error leaves fetchMemes
RethrowSourceError(subreddit) ==
    /\ raised' = TRUE
    /\ pc' = "rejected"
    /\ UNCHANGED <<errors, allMemes>>

\* catch (error) { console.error(`Error scraping r/${subreddit}:`, error) }, and
\* the loop goes on
CatchSourceError(subreddit) ==
    /\ errors' = Append(errors, subreddit)
    /\ pc' = "loop"
    /\ UNCHANGED <<raised, allMemes>>

\* getHot rejects (network, authentication, rate limit)
FetchRejected ==
    /\ pc = "await"
    /\ outstanding' = outstanding - 1
    /\ delivered' = Append(delivered, [ok |-> FALSE, posts |-> << >>])
    /\ CatchSourceError(config.subreddits[cursor])
    /\ UNCHANGED <<config, feed, caller, cursor, requests, result,
                   memes, trendingTickers, output, fnVars>>

\* getHot resolves, and every meme is pushed to allMemes as soon as it is
\* converted: a throw leaves the memes converted before it in allMemes
FetchResolvedPushEach ==
    /\ pc = "await"
    /\ \E batch \in Batches(feed[config.subreddits[cursor]], config.limit) :
          /\ delivered' = Append(delivered, [ok |-> TRUE, posts |-> batch])
          /\ IF LoopThrows(batch, config)
             THEN LET bad == CHOOSE k \in DOMAIN batch :
                                /\ shouldIncludePost(batch[k], config) /\ ConvertThrows(batch[k])
                                /\ \A j \in 1..(k - 1) :
                                       ~(shouldIncludePost(batch[j], config)
                                            /\ ConvertThrows(batch[j]))
                  IN  /\ allMemes' = allMemes \o
                             FilterAndConvert(SubSeq(batch, 1, bad - 1),
                                              config.subreddits[cursor], config)
                      /\ errors' = Append(errors, config.subreddits[cursor])
                      /\ pc' = "loop"
                      /\ UNCHANGED raised
             ELSE /\ allMemes' = allMemes \o
                        FilterAndConvert(batch, config.subreddits[cursor], config)
                  /\ pc' = "loop"
                  /\ UNCHANGED <<errors, raised>>
    /\ outstanding' = outstanding - 1
    /\ UNCHANGED <<config, feed, caller, cursor, requests, result,
                   memes, trendingTickers, output, fnVars>>

\* getHot resolves with a batch of posts; the loop of fetchFromSubreddit
\* filters and converts them, and fetchMemes pushes the memes; a throw in the
\* loop reaches the catch of fetchMemes
FetchResolved ==
    /\ pc = "await"
    /\ \E batch \in Batches(feed[config.subreddits[cursor]], config.limit) :
          /\ delivered' = Append(delivered, [ok |-> TRUE, posts |-> batch])
          /\ IF LoopThrows(batch, config)
             THEN CatchSourceError(config.subreddits[cursor])
             ELSE /\ allMemes' = allMemes \o
                        FilterAndConvert(batch, config.subreddits[cursor], config)
                  /\ pc' = "loop"
                  /\ UNCHANGED <<errors, raised>>
    /\ outstanding' = outstanding - 1
    /\ UNCHANGED <<config, feed, caller, cursor, requests, result,
                   memes, trendingTickers, output, fnVars>>

\* A return that does not wait for the loop to be over
FetchMemesReturnsEarly(who) ==
    /\ pc = "loop"
    /\ caller = who
    /\ allMemes' = SortByUpvotes(allMemes)
    /\ result' = SortByUpvotes(allMemes)

\* The loop is over: allMemes.sort(...) in place, return allMemes
FetchMemesReturns(who) ==
    /\ pc = "loop"
    /\ caller = who
    /\ cursor = Len(config.subreddits)
    /\ allMemes' = SortByUpvotes(allMemes)
    /\ result' = SortByUpvotes(allMemes)

\* A caller of the class: const memes = await scraper.fetchMemes()
CallFetchMemes ==
    /\ pc = "api"
    /\ EnterFetchMemes("api")
    /\ UNCHANGED <<config, feed, outstanding, requests, result, raised,
                   memes, trendingTickers, output, fnVars>>

ReturnToApi ==
    /\ FetchMemesReturns("api")
    /\ pc' = "done"
    /\ UNCHANGED <<config, feed, caller, cursor, outstanding, requests, delivered, errors,
                   raised, memes, trendingTickers, output, fnVars>>

Init ==
    /\ config \in {Constructor(p) : p \in PartialConfigs}
    /\ feed = Holdings
    /\ pc = "api"
    /\ caller = "api"
    /\ AggStart
    /\ FnIdle

Next ==
    \/ CallFetchMemes
    \/ IssueFetch
    \/ FetchRejected
    \/ FetchResolved
    \/ ReturnToApi

Spec == Init /\ [][Next]_vars

\* What the subreddits hold while the termination of fetchMemes is checked:
\* two posts, a malformed record, a post
LiveHoldings ==
    [s \in Range(SubredditNames) |->
        CASE s = "wallstreetbets" -> {PostImage, PostGif}
          [] s = "stocks"         -> {PostNoAuthor}
          [] s = "investing"      -> {PostGif}
          [] OTHER                -> {PostLink}]

LivePartialConfigs ==
    [subreddits  : {None} \cup {Some(l) : l \in SubredditLists},
     minUpvotes  : {Some(1), Some(2)},
     minComments : {None},
     timeframe   : {None},
     limit       : {Some(n) : n \in 1..MaxLimit},
     includeNSFW : {None}]

LiveInit ==
    /\ config \in {Constructor(p) : p \in LivePartialConfigs}
    /\ feed = LiveHoldings
    /\ pc = "api"
    /\ caller = "api"
    /\ AggStart
    /\ FnIdle

\* fetchMemes when every getHot request settles and the continuations of
\* fetchMemes are run: a settled promise resumes the awaiting function, and
\* the loop and the return follow without waiting for anything
LiveSpec ==
    /\ LiveInit
    /\ [][Next]_vars
    /\ WF_vars(FetchRejected \/ FetchResolved)
    /\ WF_vars(IssueFetch)
    /\ WF_vars(ReturnToApi)

(***************************************************************************)
(* main (index.ts)                                                         *)
(***************************************************************************)
\* const memes = await scraper.fetchMemes()
MainFetchMemes ==
    /\ pc = "main"
    /\ EnterFetchMemes("main")
    /\ UNCHANGED <<config, feed, outstanding, requests, result, raised,
                   memes, trendingTickers, output, fnVars>>

\* if (memes.length === 0) { ...; return; }
ReturnToMain ==
    /\ FetchMemesReturns("main")
    /\ memes' = SortByUpvotes(allMemes)
    /\ pc' = IF SortByUpvotes(allMemes) = << >> THEN "done" ELSE "trending"
    /\ UNCHANGED <<config, feed, caller, cursor, outstanding, requests, delivered, errors,
                   raised, trendingTickers, output, fnVars>>

\* const trendingTickers = await scraper.getTrendingTickers(), which begins
\* with const allMemes = await this.fetchMemes()
MainGetTrendingTickers ==
    /\ pc = "trending"
    /\ EnterFetchMemes("getTrendingTickers")
    /\ UNCHANGED <<config, feed, outstanding, requests, result, raised,
                   memes, trendingTickers, output, fnVars>>

\* getTrendingTickers tallies what its own fetchMemes returned
ReturnToGetTrendingTickers ==
    /\ FetchMemesReturns("getTrendingTickers")
    /\ trendingTickers' = TrendingTickers(SortByUpvotes(allMemes))
    /\ pc' = "write"
    /\ UNCHANGED <<config, feed, caller, cursor, outstanding, requests, delivered, errors,
                   raised, memes, output, fnVars>>

\* writeFileSync(outputFile, JSON.stringify(output, null, 2))
MainWriteOutput ==
    /\ pc = "write"
    /\ output' = Some([totalMemes      |-> Len(memes),
                       memes           |-> memes,
                       trendingTickers |-> trendingTickers])
    /\ pc' = "done"
    /\ UNCHANGED <<config, feed, caller, cursor, allMemes, outstanding, requests,
                   delivered, errors, result, raised, memes, trendingTickers, fnVars>>

MainInit ==
    /\ config \in {Constructor(p) : p \in MainPartialConfigs}
    /\ feed = MainHoldings
    /\ pc = "main"
    /\ caller = "main"
    /\ AggStart
    /\ FnIdle

MainNext ==
    \/ MainFetchMemes
    \/ IssueFetch
    \/ FetchRejected
    \/ FetchResolved
    \/ ReturnToMain
    \/ MainGetTrendingTickers
    \/ ReturnToGetTrendingTickers
    \/ MainWriteOutput

MainSpec == MainInit /\ [][MainNext]_vars

(***************************************************************************)
(* getMemesByTicker                                                        *)
(***************************************************************************)
\* The filter with the query as given, not in upper case
MemesByTickerAsGiven(list, ticker) ==
    SelectSeq(list, LAMBDA meme : ticker \in Range(meme.tickers))

\* allMemes.filter(meme => meme.tickers.includes(ticker.toUpperCase()))
MemesByTicker(list, ticker) ==
    SelectSeq(list, LAMBDA meme : toUpperCase(ticker) \in Range(meme.tickers))

\* The queries: a ticker of the posts in both cases, the other ticker, both
\* tickers in one word, the ticker with its '$', a ticker of no post, ''
TickerQueries ==
    {<<"a">>, <<"A">>, <<"b">>, <<"B">>, <<"a","b">>, <<"$","a">>, <<"c">>, << >>}

\* A client calls getMemesByTicker(ticker), which begins with
\* const allMemes = await this.fetchMemes()
CallGetMemesByTicker ==
    /\ pc = "byTicker"
    /\ EnterFetchMemes("getMemesByTicker")
    /\ UNCHANGED <<config, feed, outstanding, requests, result, raised,
                   memes, trendingTickers, output, fnVars>>

\* fetchMemes returns, and getMemesByTicker returns the filtered memes
ReturnToGetMemesByTicker ==
    /\ FetchMemesReturns("getMemesByTicker")
    /\ ret' = MemesByTicker(SortByUpvotes(allMemes), arg)
    /\ pc' = "done"
    /\ UNCHANGED <<config, feed, caller, cursor, outstanding, requests, delivered, errors,
                   raised, memes, trendingTickers, output, fnPc, arg>>

ByTickerInit ==
    /\ config \in {Constructor(p) : p \in MainPartialConfigs}
    /\ feed = MainHoldings
    /\ pc = "byTicker"
    /\ caller = "getMemesByTicker"
    /\ AggStart
    /\ fnPc = "idle"
    /\ arg \in TickerQueries
    /\ ret = << >>

ByTickerNext ==
    \/ CallGetMemesByTicker
    \/ IssueFetch
    \/ FetchRejected
    \/ FetchResolved
    \/ ReturnToGetMemesByTicker

ByTickerSpec == ByTickerInit /\ [][ByTickerNext]_vars

(***************************************************************************)
(* fetchMemes on posts whose counts the Fetch Service does not vouch for   *)
(***************************************************************************)
\* An image with a score below zero
PostNegativeScore ==
    [PostImage EXCEPT !.id = "t3_neg", !.score = -1, !.permalink = <<"/","r","/","6">>]

\* An image with fewer comments than none
PostNegativeComments ==
    [PostImage EXCEPT !.id = "t3_ncm", !.num_comments = -1, !.permalink = <<"/","r","/","7">>]

\* An image whose total_awards_received is below zero
PostNegativeAwards ==
    [PostImage EXCEPT !.id = "t3_naw", !.total_awards_received = Some(-1),
                      !.permalink = <<"/","r","/","8">>]

EngagementHoldings ==
    [s \in Range(SubredditNames) |->
        CASE s = "wallstreetbets" -> {PostImage, PostNegativeScore, PostNegativeAwards}
          [] s = "stocks"         -> {PostGif, PostNegativeComments}
          [] OTHER                -> {PostLink}]

\* Configurations whose thresholds are not below zero
EngagementPartialConfigs ==
    [subreddits  : {Some(SubSeq(SubredditNames, 1, n)) : n \in 1..MaxSources},
     minUpvotes  : {Some(0), Some(2)},
     minComments : {None, Some(1)},
     timeframe   : {None},
     limit       : {Some(n) : n \in 1..MaxLimit},
     includeNSFW : {None}]

EngagementInit ==
    /\ config \in {Constructor(p) : p \in EngagementPartialConfigs}
    /\ feed = EngagementHoldings
    /\ pc = "api"
    /\ caller = "api"
    /\ AggStart
    /\ FnIdle

EngagementSpec == EngagementInit /\ [][Next]_vars

(***************************************************************************)
(* fetchMemes under configurations that differ in the timeframe            *)
(***************************************************************************)
\* ScraperConfig: timeframe: 'hour' | 'day' | 'week' | 'month'
Timeframes == {"hour", "day", "week", "month"}

TimeframePartialConfigs ==
    [subreddits  : {Some(SubSeq(SubredditNames, 1, n)) : n \in 1..MaxSources},
     minUpvotes  : {Some(1), Some(3)},
     minComments : {None},
     timeframe   : {None} \cup {Some(t) : t \in Timeframes},
     limit       : {Some(n) : n \in 1..MaxLimit},
     includeNSFW : {None}]

TimeframeInit ==
    /\ config \in {Constructor(p) : p \in TimeframePartialConfigs}
    /\ feed = MainHoldings
    /\ pc = "api"
    /\ caller = "api"
    /\ AggStart
    /\ FnIdle

TimeframeSpec == TimeframeInit /\ [][Next]_vars

(***************************************************************************)
(* Token Extractor under test: any text over a small alphabet, and the     *)
(* texts the specification quotes                                          *)
(***************************************************************************)
\* The longest text drawn from the alphabet: 7 holds a '$' and six letters
MaxLen == 7

TextAlphabet == {"$", "A", "a", " "}

SPY == <<"S","P","Y">>
TSLA == <<"T","S","L","A">>

\* "$SPY up, $TSLA down, $SPY again"
TextSpyTslaSpy ==
    <<"$","S","P","Y"," ","u","p",","," ","$","T","S","L","A"," ","d","o","w","n",
      ","," ","$","S","P","Y"," ","a","g","a","i","n">>

\* "$tsla"
TextLowerTsla == <<"$","t","s","l","a">>

\* "$TSLAXY $SPY_ $GME." : six letters, an underscore after the letters
TextNoBoundary ==
    <<"$","T","S","L","A","X","Y"," ","$","S","P","Y","_"," ","$","G","M","E",".">>

Texts ==
    UNION {[1..n -> TextAlphabet] : n \in 0..MaxLen}
        \cup {TextSpyTslaSpy, TextLowerTsla, TextNoBoundary}

\* The scraper, constructed and not run, while a pure function is under test
ScraperIdle ==
    /\ feed = [s \in Range(SubredditNames) |-> {}]
    /\ pc = "idle"
    /\ caller = "none"
    /\ AggStart

\* new RedditMemeScraper(credentials): every default
AggIdle ==
    /\ config = Constructor([subreddits |-> None, minUpvotes |-> None, minComments |-> None,
                             timeframe |-> None, limit |-> None, includeNSFW |-> None])
    /\ ScraperIdle

ExtractInit ==
    /\ fnPc = "call"
    /\ arg \in Texts
    /\ ret = << >>
    /\ AggIdle

ApplyExtractTickers ==
    /\ fnPc = "call"
    /\ fnPc' = "return"
    /\ ret' = extractTickers(arg)
    /\ UNCHANGED <<arg, aggVars>>

ExtractNext == ApplyExtractTickers

ExtractSpec == ExtractInit /\ [][ExtractNext]_vars

(***************************************************************************)
(* Classifier under test: every combination of gallery flag, post hint and *)
(* URL out of hosts, paths and suffixes that meet every rule               *)
(***************************************************************************)
UrlHosts == {MarkerIReddIt, MarkerImgur, MarkerVReddIt, HostOther}

\* "/a", and a path that names the image domain
UrlPaths == {<<"/","a">>, <<"/","i",".","r","e","d","d",".","i","t","/","a">>}

\* Every extension of the code, none, one in upper case and one that is
\* followed by a query
UrlSuffixes ==
    {<< >>, ExtGif, ExtGifv, ExtJpg, ExtJpeg, ExtPng, ExtWebp, ExtMp4, ExtWebm, ExtMov,
     <<".","J","P","G">>, ExtJpg \o <<"?","x">>}

ClassifyUrls ==
    {None, Some(<< >>)}
        \cup {Some(Https \o h \o p \o x) : h \in UrlHosts, p \in UrlPaths, x \in UrlSuffixes}

ClassifyHints == {Absent, "image", "hosted:video", "rich:video", "link", "self"}

ClassifyPosts ==
    {[RawBase EXCEPT !.is_gallery = g, !.post_hint = h, !.url = u] :
        g \in {None, Some(TRUE), Some(FALSE)}, h \in ClassifyHints, u \in ClassifyUrls}

ClassifyInit ==
    /\ fnPc = "call"
    /\ arg \in ClassifyPosts
    /\ ret = << >>
    /\ AggIdle

ApplyDeterminePostType ==
    /\ fnPc = "call"
    /\ fnPc' = "return"
    /\ ret' = <<determinePostType(arg)>>
    /\ UNCHANGED <<arg, aggVars>>

ClassifyNext == ApplyDeterminePostType

ClassifySpec == ClassifyInit /\ [][ClassifyNext]_vars

(***************************************************************************)
(* Inclusion Filter under test: posts with and without visual content,     *)
(* adult-flagged or not, of scores and comment counts around the           *)
(* thresholds of the configuration                                         *)
(***************************************************************************)
FilterPosts ==
    {[p EXCEPT !.over_18 = a, !.score = s, !.num_comments = c] :
        p \in {PostImage, PostGif, PostGallery, PostLink},
        a \in BOOLEAN, s \in {0, 5, 10, 11, 100}, c \in {0, 1, 2}}

FilterPartialConfigs ==
    [subreddits  : {None},
     minUpvotes  : {None, Some(0), Some(10)},
     minComments : {None, Some(1), Some(2)},
     timeframe   : {None},
     limit       : {None},
     includeNSFW : {None, Some(TRUE), Some(FALSE)}]

FilterInit ==
    /\ fnPc = "call"
    /\ arg \in FilterPosts
    /\ ret = << >>
    /\ config \in {Constructor(p) : p \in FilterPartialConfigs}
    /\ ScraperIdle

ApplyShouldIncludePost ==
    /\ fnPc = "call"
    /\ fnPc' = "return"
    /\ ret' = <<shouldIncludePost(arg, config)>>
    /\ UNCHANGED <<arg, aggVars>>

FilterNext == ApplyShouldIncludePost

FilterSpec == FilterInit /\ [][FilterNext]_vars

(***************************************************************************)
(* The tally of getTrendingTickers under test: any sequence of memes whose *)
(* ticker lists are such as extractTickers returns, without duplicates     *)
(***************************************************************************)
\* The most memes tallied
MaxPosts == 3

GME == <<"G","M","E">>

TallyTokens == {SPY, TSLA, GME}

\* The ticker lists over the tokens, each token at most once
TickerLists ==
    UNION {{s \in [1..n -> TallyTokens] : \A j, k \in 1..n : j # k => s[j] # s[k]} :
              n \in 0..Cardinality(TallyTokens)}

\* The memes, as far as the tally reads them
TallyMemes == {[tickers |-> l] : l \in TickerLists}

TallyInit ==
    /\ fnPc = "call"
    /\ arg \in UNION {[1..n -> TallyMemes] : n \in 0..MaxPosts}
    /\ ret = << >>
    /\ AggIdle

ApplyTally ==
    /\ fnPc = "call"
    /\ fnPc' = "return"
    /\ ret' = TrendingTickers(arg)
    /\ UNCHANGED <<arg, aggVars>>

TallyNext == ApplyTally

TallySpec == TallyInit /\ [][TallyNext]_vars

(***************************************************************************)
(* getMediaUrl under test: every combination of the fields it reads        *)
(***************************************************************************)
\* "https://v.redd.it/f"
UrlFallback == Https \o MarkerVReddIt \o <<"/","f">>
\* "https://x.co/g?a&amp;b"
UrlGalleryItem == Https \o HostOther \o <<"/","g","?","a">> \o Amp \o <<"b">>

\* The media_metadata of a gallery: absent, empty, one item, a first item
\* without source and a second with one, two items
MediaMetadatas ==
    {None, Some(<< >>), Some(<<Some(UrlGalleryItem)>>),
     Some(<<None, Some(UrlGalleryItem)>>), Some(<<Some(UrlGalleryItem), Some(UrlOtherPage)>>)}

MediaPosts ==
    {[RawBase EXCEPT !.url = u, !.post_hint = h, !.is_video = v, !.fallback_url = f,
                     !.preview_url = p, !.is_gallery = g, !.media_metadata = m] :
        u \in {None, Some(<< >>), Some(UrlRedditJpg), Some(UrlOtherPage)},
        h \in {Absent, "image", "link"},
        v \in {None, Some(TRUE), Some(FALSE)},
        f \in {None, Some(<< >>), Some(UrlFallback)},
        p \in {None, Some(UrlPreview)},
        g \in {None, Some(TRUE)},
        m \in MediaMetadatas}

MediaInit ==
    /\ fnPc = "call"
    /\ arg \in MediaPosts
    /\ ret = << >>
    /\ AggIdle

ApplyGetMediaUrl ==
    /\ fnPc = "call"
    /\ fnPc' = "return"
    /\ ret' = <<getMediaUrl(arg)>>
    /\ UNCHANGED <<arg, aggVars>>

MediaNext == ApplyGetMediaUrl

MediaSpec == MediaInit /\ [][MediaNext]_vars

(***************************************************************************)
(* convertToMemePost under test: any title and any body, or none, over a   *)
(* small alphabet                                                          *)
(***************************************************************************)
\* The longest title and the longest body
MaxTextLen == 3

TitleAlphabet == {"$", "A", "B", " "}

TitleTexts == UNION {[1..n -> TitleAlphabet] : n \in 0..MaxTextLen}

NormalizePosts ==
    {[PostImage EXCEPT !.title = t, !.selftext = b] :
        t \in TitleTexts, b \in {None} \cup {Some(x) : x \in TitleTexts}}

NormalizeInit ==
    /\ fnPc = "call"
    /\ arg \in NormalizePosts
    /\ ret = << >>
    /\ AggIdle

ApplyConvertToMemePost ==
    /\ fnPc = "call"
    /\ fnPc' = "return"
    /\ ret' = <<convertToMemePost(arg, "wallstreetbets")>>
    /\ UNCHANGED <<arg, aggVars>>

NormalizeNext == ApplyConvertToMemePost

NormalizeSpec == NormalizeInit /\ [][NormalizeNext]_vars

(***************************************************************************)
(* Claims about fetchMemes (fetchAll)                                      *)
(***************************************************************************)
\* fetchMemes has returned to its caller
Returned == pc = "done" /\ caller = "api"

\* The name of the k-th configured source
SourceName(k) == config.subreddits[k]

\* The fetch of the k-th source failed: getHot rejected, or
\* fetchFromSubreddit threw on a record it could not convert
SourceFailed(k) ==
    \/ ~delivered[k].ok
    \/ \E j \in DOMAIN delivered[k].posts :
          /\ shouldIncludePost(delivered[k].posts[j], config)
          /\ delivered[k].posts[j].author = None

\* The accepted posts of the k-th source, normalized, in the order fetched
Accepted(k) ==
    LET kept == SelectSeq(delivered[k].posts, LAMBDA p : shouldIncludePost(p, config))
    IN  [j \in DOMAIN kept |-> convertToMemePost(kept[j], SourceName(k))]

\* The accepted posts of the sources 1..n that did not fail, in fetch order
RECURSIVE FetchOrder(_)
FetchOrder(n) ==
    IF n = 0 THEN << >>
    ELSE FetchOrder(n - 1) \o (IF SourceFailed(n) THEN << >> ELSE Accepted(n))

Occurrences(s, x) == Cardinality({k \in DOMAIN s : s[k] = x})

SameElements(s, t) ==
    /\ Len(s) = Len(t)
    /\ \A x \in Range(s) \cup Range(t) : Occurrences(s, x) = Occurrences(t, x)

\* C1: whichever sources fail, fetchMemes does not raise; once it has
\* returned, every configured source has been fetched, there is one logged
\* failure per failed source (in order), and the result holds exactly the
\* accepted, normalized posts of the sources that did not fail: nothing of a
\* failed source, and nothing at all when every source failed.  A source
\* fails when its fetchFromSubreddit call rejects.
C1_PartialFailureTolerance ==
    /\ ~raised
    /\ pc # "rejected"
    /\ Returned =>
          /\ Len(delivered) = Len(config.subreddits)
          /\ [k \in DOMAIN requests |-> requests[k].subreddit] = config.subreddits
          /\ errors = SelectSeq([k \in DOMAIN delivered |-> IF SourceFailed(k)
                                                              THEN SourceName(k)
                                                              ELSE "-"],
                                LAMBDA name : name # "-")
          /\ SameElements(result, FetchOrder(Len(delivered)))
          /\ (\A k \in DOMAIN delivered : SourceFailed(k)) => result = << >>

\* The first source failed at getHot, the second delivered two accepted posts
C1_Witness ==
    /\ Returned
    /\ Len(delivered) = 2
    /\ ~delivered[1].ok
    /\ delivered[2].ok
    /\ Len(result) = 2
    /\ errors = <<"wallstreetbets">>

\* C3: the returned sequence is in non-increasing order of upvotes, and the
\* posts of equal upvotes stand in the order they were fetched (source order,
\* then position in the source's batch).
C3_SortedStable ==
    Returned =>
        /\ \A j, k \in DOMAIN result :
              j < k => result[j].engagement.upvotes >= result[k].engagement.upvotes
        /\ \A v \in {result[k].engagement.upvotes : k \in DOMAIN result} :
              SelectSeq(result, LAMBDA m : m.engagement.upvotes = v)
                  = SelectSeq(FetchOrder(Len(delivered)),
                              LAMBDA m : m.engagement.upvotes = v)
        /\ Len(result) = Len(FetchOrder(Len(delivered)))

\* Two posts of equal upvotes from one source, a third of equal upvotes from
\* the next source, and a post of more upvotes fetched last and returned first
C3_Witness ==
    /\ Returned
    /\ Len(result) = 4
    /\ result # FetchOrder(Len(delivered))
    /\ result[2].engagement.upvotes = result[3].engagement.upvotes
    /\ result[2].subreddit = result[3].subreddit
    /\ result[3].engagement.upvotes = result[4].engagement.upvotes
    /\ result[3].subreddit # result[4].subreddit

\* C6 (as claimed): a record without author does not abort its batch: every
\* other post of the same delivered batch that passes the filter is in the
\* result.
C6_MalformedRecordIsolated ==
    Returned =>
        \A k \in DOMAIN delivered : \A j \in DOMAIN delivered[k].posts :
            (/\ delivered[k].ok
             /\ delivered[k].posts[j].author # None
             /\ shouldIncludePost(delivered[k].posts[j], config))
                => convertToMemePost(delivered[k].posts[j], SourceName(k)) \in Range(result)

\* C7 (as claimed): with no source configured, fetchMemes does not complete
\* normally.
C7_EmptySourcesRejected ==
    ~(config.subreddits = << >> /\ Returned /\ ~raised)

(***************************************************************************)
(* Claims about main                                                       *)
(***************************************************************************)
\* C2: at most one getHot request is outstanding at any time; the requests
\* of a fetchMemes call are those of the configured sources in order, the
\* next one issued only when the one before has settled and its posts have
\* been filtered and converted; and the requests of getTrendingTickers begin
\* only when the fetchMemes call of main is over.
C2_SequentialFetch ==
    /\ outstanding \in {0, 1}
    /\ outstanding = 1 <=> pc = "await"
    /\ pc \in {"loop", "await"} => cursor = Len(delivered) + outstanding
    /\ LET before == IF caller = "getTrendingTickers" THEN Len(config.subreddits) ELSE 0
       IN  /\ pc \in {"loop", "await"} => Len(requests) = before + cursor
           /\ \A k \in DOMAIN requests :
                 requests[k].subreddit =
                     config.subreddits[IF k > Len(config.subreddits)
                                       THEN k - Len(config.subreddits) ELSE k]

\* The second source of getTrendingTickers' fetchMemes is being fetched
C2_Witness ==
    /\ caller = "getTrendingTickers"
    /\ pc = "await"
    /\ cursor = 2
    /\ Len(requests) = 4

\* C8 (as claimed): in the output of main, the count of every ticker in
\* trendingTickers is the number of posts of memes whose tickers hold it, and
\* every ticker of a post of memes is in trendingTickers.
C8_TrendingMatchesMemes ==
    output # None =>
        LET o == Get(output)
        IN  /\ \A e \in Range(o.trendingTickers) :
                  e.count = Cardinality({k \in DOMAIN o.memes :
                                            e.ticker \in Range(o.memes[k].tickers)})
            /\ \A k \in DOMAIN o.memes : \A t \in Range(o.memes[k].tickers) :
                  \E e \in Range(o.trendingTickers) : e.ticker = t

\* C9 (as claimed): a complete run of main issues one fetch request per
\* configured subreddit.
C9_OneRequestPerSubreddit ==
    pc = "done" => Len(requests) = Len(config.subreddits)

(***************************************************************************)
(* Claims about the Inclusion Filter and the Classifier                    *)
(***************************************************************************)
\* The post has visual content: its category is not link
HasVisualContent(post) == determinePostType(post) # "link"

\* The four checks of the filter, each on its own
FilterChecks(post, cfg) ==
    <<HasVisualContent(post),
      ~post.over_18 \/ cfg.includeNSFW,
      post.score >= cfg.minUpvotes,
      post.num_comments >= cfg.minComments>>

\* C4: shouldIncludePost accepts exactly when the post has visual content,
\* is not adult-flagged unless adult content is included, has a score of at
\* least the minimum upvotes and a comment count of at least the minimum
\* comments: the conjunction of the four checks, in whatever order they are
\* taken.  A score below the minimum rejects whatever the other fields, and
\* an adult-flagged post is rejected when adult content is excluded.
C4_InclusionVerdict ==
    fnPc = "return" =>
        LET checks == FilterChecks(arg, config)
        IN  /\ ret = <<\A k \in DOMAIN checks : checks[k]>>
            /\ arg.score < config.minUpvotes => ret = <<FALSE>>
            /\ (arg.over_18 /\ ~config.includeNSFW) => ret = <<FALSE>>

\* A post of score 10 is accepted at minimum upvotes 10
C4_Witness ==
    /\ fnPc = "return"
    /\ arg.score = 10
    /\ config.minUpvotes = 10
    /\ arg.over_18
    /\ config.includeNSFW
    /\ ret = <<TRUE>>

\* The URL, in lower case, ends with one of the extensions
HasSuffix(url, exts) ==
    \E e \in exts :
        /\ Len(url) >= Len(e)
        /\ SubSeq(url, Len(url) - Len(e) + 1, Len(url)) = e

\* The URL, in lower case, contains the marker
HasMarker(url, marker) ==
    \E k \in 1..(Len(url) - Len(marker) + 1) :
        SubSeq(url, k, k + Len(marker) - 1) = marker

\* The rules of the classifier in their order of priority
ClassifierRules(post) ==
    LET url == IF post.url = None THEN << >> ELSE toLowerCase(post.url[1])
    IN  <<[hit |-> post.is_gallery = Some(TRUE), type |-> "gallery"],
          [hit |-> post.post_hint = "image", type |-> "image"],
          [hit |-> post.post_hint \in {"hosted:video", "rich:video"}, type |-> "video"],
          [hit |-> HasSuffix(url, {ExtGif, ExtGifv}), type |-> "gif"],
          [hit |-> HasSuffix(url, {ExtJpg, ExtJpeg, ExtPng, ExtWebp}), type |-> "image"],
          [hit |-> HasSuffix(url, {ExtMp4, ExtWebm, ExtMov}), type |-> "video"],
          [hit |-> HasMarker(url, MarkerIReddIt) \/ HasMarker(url, MarkerImgur),
           type |-> "image"],
          [hit |-> HasMarker(url, MarkerVReddIt), type |-> "video"],
          [hit |-> TRUE, type |-> "link"]>>

\* C5: determinePostType returns the category of the first rule that matches,
\* in the order gallery flag, hint image, hint hosted:video or rich:video,
\* suffix .gif/.gifv, suffix .jpg/.jpeg/.png/.webp, suffix .mp4/.webm/.mov,
\* image-domain marker, video-domain marker, link.  A gallery with a .jpg URL
\* is a gallery, a post of hint image with an .mp4 URL is an image, and the
\* result is one of the five categories.
C5_ClassifierPriority ==
    fnPc = "return" =>
        LET rules == ClassifierRules(arg)
            first == CHOOSE k \in DOMAIN rules :
                        rules[k].hit /\ \A j \in 1..(k - 1) : ~rules[j].hit
            url   == IF arg.url = None THEN << >> ELSE toLowerCase(arg.url[1])
        IN  /\ ret = <<rules[first].type>>
            /\ ret[1] \in {"image", "gif", "video", "gallery", "link"}
            /\ (arg.is_gallery = Some(TRUE) /\ HasSuffix(url, {ExtJpg}))
                  => ret = <<"gallery">>
            /\ (arg.is_gallery # Some(TRUE) /\ arg.post_hint = "image"
                    /\ HasSuffix(url, {ExtMp4}))
                  => ret = <<"image">>

\* A post of hint image whose URL ends with .mp4 on the video domain
C5_Witness ==
    /\ fnPc = "return"
    /\ arg.is_gallery = None
    /\ arg.post_hint = "image"
    /\ arg.url = Some(Https \o MarkerVReddIt \o <<"/","a">> \o ExtMp4)
    /\ ret = <<"image">>

(***************************************************************************)
(* C10  Token Extractor                                                    *)
(***************************************************************************)
\* 1 to 5 uppercase Latin letters
IsTicker(t) == Len(t) \in 1..5 /\ \A k \in DOMAIN t : t[k] \in Range(UpperSeq)

\* t stands in the text right after the '$' at position p, and a word
\* boundary follows it: the text ends there or goes on with a character that
\* is no letter, digit or underscore
TickerOccursAt(text, p, t) ==
    /\ p >= 1
    /\ p + Len(t) <= Len(text)
    /\ text[p] = "$"
    /\ SubSeq(text, p + 1, p + Len(t)) = t
    /\ \/ p + Len(t) = Len(text)
       \/ text[p + Len(t) + 1] \notin
              Range(UpperSeq) \cup Range(LowerSeq) \cup Digits \cup {"_"}

TickerOccurs(text, t) == \E p \in 1..Len(text) : TickerOccursAt(text, p, t)

FirstAppearance(text, t) ==
    CHOOSE p \in 1..Len(text) :
        TickerOccursAt(text, p, t) /\ \A q \in 1..(p - 1) : ~TickerOccursAt(text, q, t)

\* C10: extractTickers returns a sequence without duplicates; every element is
\* 1 to 5 uppercase letters that stand in the text right after a '$' and before
\* a word boundary; the elements are in the order of their first appearance,
\* and every such token of the text is returned; "$SPY up, $TSLA down, $SPY
\* again" gives [SPY, TSLA]; "$tsla", and any text without '$' followed by an
\* uppercase letter, gives the empty sequence.
C10_TokenExtractor ==
    fnPc = "return" =>
        /\ \A j, k \in DOMAIN ret : j # k => ret[j] # ret[k]
        /\ \A k \in DOMAIN ret : IsTicker(ret[k]) /\ TickerOccurs(arg, ret[k])
        /\ \A j, k \in DOMAIN ret :
              j < k => FirstAppearance(arg, ret[j]) < FirstAppearance(arg, ret[k])
        /\ \A p \in 1..Len(arg) : \A n \in 1..5 :
              (p + n <= Len(arg) /\ IsTicker(SubSeq(arg, p + 1, p + n))
                    /\ TickerOccursAt(arg, p, SubSeq(arg, p + 1, p + n)))
                 => SubSeq(arg, p + 1, p + n) \in Range(ret)
        /\ arg = TextSpyTslaSpy => ret = <<SPY, TSLA>>
        /\ arg = TextLowerTsla => ret = << >>
        /\ (\A p \in 1..Len(arg) :
                arg[p] = "$" => (p = Len(arg) \/ arg[p + 1] \notin Range(UpperSeq)))
              => ret = << >>

\* The quoted text has been extracted: a repeated token and a second one
C10_Witness ==
    /\ fnPc = "return"
    /\ arg = TextSpyTslaSpy
    /\ Len(ret) = 2

(***************************************************************************)
(* Claims about the tally of getTrendingTickers                            *)
(***************************************************************************)
\* The first post of the sequence whose ticker list holds t
FirstPost(posts, t) ==
    CHOOSE k \in DOMAIN posts :
        /\ t \in Range(posts[k].tickers)
        /\ \A j \in 1..(k - 1) : t \notin Range(posts[j].tickers)

\* The position of t in a ticker list that holds it
PositionIn(list, t) == CHOOSE k \in DOMAIN list : list[k] = t

\* t occurs before u when the ticker lists are flattened in sequence order
OccursBefore(posts, t, u) ==
    \/ FirstPost(posts, t) < FirstPost(posts, u)
    \/ /\ FirstPost(posts, t) = FirstPost(posts, u)
       /\ PositionIn(posts[FirstPost(posts, t)].tickers, t)
              < PositionIn(posts[FirstPost(posts, t)].tickers, u)

\* C11: the table of getTrendingTickers has one entry for every token of the
\* posts and no other, the count of a token is the number of posts whose
\* token set contains it, the entries are in non-increasing order of count,
\* and entries of equal count are in the order of first occurrence of their
\* tokens in the flattened token sets; [[SPY,TSLA],[SPY]] gives SPY:2, TSLA:1.
C11_TokenFrequency ==
    fnPc = "return" =>
        /\ {ret[k].ticker : k \in DOMAIN ret}
               = UNION {Range(arg[k].tickers) : k \in DOMAIN arg}
        /\ \A j, k \in DOMAIN ret : j # k => ret[j].ticker # ret[k].ticker
        /\ \A k \in DOMAIN ret :
              ret[k].count = Cardinality({p \in DOMAIN arg :
                                             ret[k].ticker \in Range(arg[p].tickers)})
        /\ \A j, k \in DOMAIN ret :
              j < k => \/ ret[j].count > ret[k].count
                       \/ /\ ret[j].count = ret[k].count
                          /\ OccursBefore(arg, ret[j].ticker, ret[k].ticker)
        /\ arg = <<[tickers |-> <<SPY, TSLA>>], [tickers |-> <<SPY>>]>>
              => ret = <<[ticker |-> SPY, count |-> 2], [ticker |-> TSLA, count |-> 1]>>

\* Token sets [[GME,TSLA],[SPY],[SPY]]: SPY moves to the front by its count,
\* GME and TSLA tie and keep the order of their first occurrence
C11_Witness ==
    /\ fnPc = "return"
    /\ arg = <<[tickers |-> <<GME, TSLA>>], [tickers |-> <<SPY>>], [tickers |-> <<SPY>>]>>
    /\ ret = <<[ticker |-> SPY, count |-> 2], [ticker |-> GME, count |-> 1],
               [ticker |-> TSLA, count |-> 1]>>

(***************************************************************************)
(* Claims about getMemesByTicker                                           *)
(***************************************************************************)
\* The letter in upper case; any other character unchanged
UpperOf(c) ==
    IF \E k \in DOMAIN LowerSeq : LowerSeq[k] = c
    THEN UpperSeq[CHOOSE k \in DOMAIN LowerSeq : LowerSeq[k] = c]
    ELSE c

\* The posts of a sequence whose token set holds the query in upper case, in
\* the order of the sequence
PostsTagged(posts, q) ==
    LET token == [k \in DOMAIN q |-> UpperOf(q[k])]
        at    == {k \in DOMAIN posts : \E j \in DOMAIN posts[k].tickers :
                                           posts[k].tickers[j] = token}
        nth   == [n \in 1..Cardinality(at) |->
                     CHOOSE k \in at : Cardinality({j \in at : j <= k}) = n]
    IN  [n \in 1..Cardinality(at) |-> posts[nth[n]]]

\* C12: what getMemesByTicker(q) returns is the subsequence, in unchanged
\* order, of the aggregated posts whose token set holds uppercase(q) as an
\* element, and it is what every query that differs from q only in case
\* returns.
C12_FilterByToken ==
    (pc = "done" /\ caller = "getMemesByTicker") =>
        /\ ret = PostsTagged(result, arg)
        /\ \A k \in DOMAIN ret : \E j \in DOMAIN ret[k].tickers :
              ret[k].tickers[j] = [n \in DOMAIN arg |-> UpperOf(arg[n])]
        /\ \A q \in TickerQueries :
              toLowerCase(q) = toLowerCase(arg) => ret = PostsTagged(result, q)

\* The query 'b' returns the two posts tagged B out of three, in their order
C12_Witness ==
    /\ pc = "done"
    /\ caller = "getMemesByTicker"
    /\ arg = <<"b">>
    /\ Len(result) = 3
    /\ Len(ret) = 2
    /\ ret[1].subreddit = "wallstreetbets"
    /\ ret[2].subreddit = "stocks"

(***************************************************************************)
(* Claims about getMediaUrl                                                *)
(***************************************************************************)
\* "https://x.co/p?a=1&b=2"
UrlPreviewPlain == Https \o HostOther \o <<"/","p","?","a","=","1","&","b","=","2">>
\* "https://x.co/g?a&b"
UrlGalleryItemPlain == Https \o HostOther \o <<"/","g","?","a","&","b">>

\* The URL with &amp; unescaped, for the URLs of the posts under test
Unescaped(u) ==
    IF u = UrlPreview THEN UrlPreviewPlain
    ELSE IF u = UrlGalleryItem THEN UrlGalleryItemPlain
    ELSE u

\* A string field that is there and not empty
Present(field) == field # None /\ field # Some(<< >>)

\* The sources of a media URL in their order of precedence
MediaSources(post) ==
    <<[present |-> Present(post.url)
                      /\ (post.post_hint = "image" \/ post.is_video = Some(TRUE)),
       value   |-> post.url],
      [present |-> Present(post.fallback_url),
       value   |-> post.fallback_url],
      [present |-> Present(post.preview_url),
       value   |-> IF Present(post.preview_url)
                   THEN Some(Unescaped(post.preview_url[1])) ELSE None],
      [present |-> /\ post.is_gallery = Some(TRUE)
                   /\ post.media_metadata # None
                   /\ post.media_metadata[1] # << >>
                   /\ Present(post.media_metadata[1][1]),
       value   |-> IF /\ post.media_metadata # None
                      /\ post.media_metadata[1] # << >>
                      /\ Present(post.media_metadata[1][1])
                   THEN Some(Unescaped(post.media_metadata[1][1][1])) ELSE None],
      [present |-> TRUE, value |-> None]>>

\* C13: getMediaUrl returns the first present source in the order raw URL
\* (with hint image or the video flag), video fallback URL, preview image
\* URL, source URL of the first gallery item (gallery flag set), absent; a
\* source that is present wins over every later one, and the category of the
\* post plays no part: a post classified link has the media URL its fields
\* give.
C13_MediaUrlOrder ==
    fnPc = "return" =>
        LET sources == MediaSources(arg)
            first   == CHOOSE k \in DOMAIN sources :
                          sources[k].present /\ \A j \in 1..(k - 1) : ~sources[j].present
        IN  /\ ret = <<sources[first].value>>
            /\ \A k \in DOMAIN sources :
                  (sources[k].present /\ ret # <<sources[k].value>>)
                      => \E j \in 1..(k - 1) : sources[j].present

\* A post classified link with a video fallback, a preview and a gallery
\* item: the fallback URL is returned
C13_Witness ==
    /\ fnPc = "return"
    /\ determinePostType(arg) = "link"
    /\ arg.post_hint = "link"
    /\ arg.fallback_url = Some(UrlFallback)
    /\ arg.preview_url = Some(UrlPreview)
    /\ arg.media_metadata = Some(<<Some(UrlGalleryItem)>>)
    /\ ret = <<Some(UrlFallback)>>

(***************************************************************************)
(* Further claims about fetchMemes                                         *)
(***************************************************************************)
\* C14 (as claimed): with thresholds that are not below zero, every post
\* fetchMemes returns has an upvote count, a comment count and an award count
\* that are not below zero, whatever the posts delivered.
C14_NonNegativeEngagement ==
    (Returned /\ config.minUpvotes >= 0 /\ config.minComments >= 0) =>
        \A k \in DOMAIN result :
            /\ result[k].engagement.upvotes >= 0
            /\ result[k].engagement.comments >= 0
            /\ result[k].engagement.awards >= 0

\* The requests fetchMemes issues under a configuration
RequestsUnder(cfg) ==
    [k \in DOMAIN cfg.subreddits |->
        [subreddit |-> cfg.subreddits[k], listing |-> Listing(cfg), limit |-> cfg.limit]]

\* What fetchMemes returns under a configuration when getHot settles as in
\* the responses
RECURSIVE CollectedUnder(_, _, _)
CollectedUnder(cfg, responses, n) ==
    IF n = 0 THEN << >>
    ELSE CollectedUnder(cfg, responses, n - 1) \o
            (IF ~responses[n].ok \/ LoopThrows(responses[n].posts, cfg) THEN << >>
             ELSE FilterAndConvert(responses[n].posts, cfg.subreddits[n], cfg))

HostOf(url) ==
    LET from == CHOOSE k \in 0..Len(url) :
                    /\ k = 0 \/ (k >= 2 /\ url[k - 1] = "/" /\ url[k] = "/")
                    /\ \A j \in 2..(k - 1) : ~(url[j - 1] = "/" /\ url[j] = "/")
                    /\ k = 0 => \A j \in 2..Len(url) : ~(url[j - 1] = "/" /\ url[j] = "/")
        rest == SubSeq(url, from + 1, Len(url))
        stop == CHOOSE k \in 1..(Len(rest) + 1) :
                    /\ k = Len(rest) + 1 \/ rest[k] = "/"
                    /\ \A j \in 1..(k - 1) : rest[j] # "/"
    IN  toLowerCase(SubSeq(rest, 1, stop - 1))

\* C16 (as claimed): a post without gallery flag, recognized hint or
\* recognized URL suffix is an image only if the host of its URL contains an
\* image-domain marker and a video only if the host contains the
\* video-domain marker; with the marker in the path or the query only, it is
\* a link.
C16_MarkerInHostOnly ==
    fnPc = "return" =>
        LET url  == IF arg.url = None THEN << >> ELSE toLowerCase(arg.url[1])
            host == IF arg.url = None THEN << >> ELSE HostOf(arg.url[1])
        IN  (/\ arg.is_gallery # Some(TRUE)
             /\ arg.post_hint \notin {"image", "hosted:video", "rich:video"}
             /\ ~HasSuffix(url, {ExtGif, ExtGifv, ExtJpg, ExtJpeg, ExtPng, ExtWebp,
                                 ExtMp4, ExtWebm, ExtMov}))
                => /\ ret = <<"image">>
                        => HasMarker(host, MarkerIReddIt) \/ HasMarker(host, MarkerImgur)
                   /\ ret = <<"video">> => HasMarker(host, MarkerVReddIt)
                   /\ (~HasMarker(host, MarkerIReddIt) /\ ~HasMarker(host, MarkerImgur)
                          /\ ~HasMarker(host, MarkerVReddIt))
                        => ret = <<"link">>

(***************************************************************************)
(* Termination of fetchMemes                                               *)
(***************************************************************************)
\* C17: when every getHot request settles, a call of fetchMemes returns, and
\* it has then issued exactly one request per configured source; and there
\* is no cancellation: while a request is outstanding no further request is
\* issued and fetchMemes does not return.
C17_Termination ==
    /\ (pc = "loop") ~> (Returned /\ Len(requests) = Len(config.subreddits))
    /\ [](Returned =>
             /\ Len(requests) = Len(config.subreddits)
             /\ \A j, k \in DOMAIN requests :
                   j # k => requests[j].subreddit # requests[k].subreddit)
    /\ [][outstanding > 0 => (requests' = requests /\ pc' # "done")]_vars

\* fetchMemes has returned after two requests, of which the first was rejected
\* and the second resolved
C17_Witness ==
    /\ Returned
    /\ Len(requests) = 2
    /\ outstanding = 0
    /\ ~delivered[1].ok
    /\ delivered[2].ok

(***************************************************************************)
(* Soundness of the filter in the result of fetchMemes                     *)
(***************************************************************************)
\* C18: every post fetchMemes returns has a category among image, gif,
\* video, gallery, at least the minimum upvotes and the minimum comments of
\* the configuration, and is adult-flagged only when adult content is
\* included; and its category is the one determinePostType gives the raw
\* post it was made of, which the filter admitted it by.
C18_FilterSoundness ==
    Returned =>
        \A k \in DOMAIN result :
            /\ result[k].postType \in {"image", "gif", "video", "gallery"}
            /\ result[k].engagement.upvotes >= config.minUpvotes
            /\ result[k].engagement.comments >= config.minComments
            /\ result[k].isNSFW => config.includeNSFW
            /\ \E j \in DOMAIN delivered : \E n \in DOMAIN delivered[j].posts :
                  /\ SourceName(j) = result[k].subreddit
                  /\ delivered[j].posts[n].id = result[k].id
                  /\ determinePostType(delivered[j].posts[n]) = result[k].postType
                  /\ determinePostType(delivered[j].posts[n]) # "link"

\* The second source delivered an adult gallery and a gif, adult content is
\* excluded and one comment is wanted: the gif alone is returned
C18_Witness ==
    /\ Returned
    /\ ~config.includeNSFW
    /\ config.minComments = 1
    /\ Len(delivered) = 2
    /\ Len(delivered[2].posts) = 2
    /\ delivered[2].posts[1].over_18
    /\ Len(result) = 1
    /\ result[1].postType = "gif"
    /\ result[1].subreddit = "stocks"

(***************************************************************************)
(* Tokens of the title and of the body                                     *)
(***************************************************************************)
\* C19: the tickers of the post convertToMemePost makes are the tokens of
\* the title in their order, followed by the tokens of the body that the
\* title does not have, in their order: no token that is in neither text, no
\* token of either text lost, and the tokens of the title alone when there
\* is no body.
C19_TitleThenBody ==
    fnPc = "return" =>
        LET ofTitle == extractTickers(arg.title)
            ofBody  == IF arg.selftext = None THEN << >>
                       ELSE extractTickers(arg.selftext[1])
            fresh   == SelectSeq(ofBody, LAMBDA t : \A k \in DOMAIN ofTitle : ofTitle[k] # t)
        IN  /\ ret[1].tickers = ofTitle \o fresh
            /\ {ret[1].tickers[k] : k \in DOMAIN ret[1].tickers}
                   = {ofTitle[k] : k \in DOMAIN ofTitle} \cup {ofBody[k] : k \in DOMAIN ofBody}
            /\ arg.selftext = None => ret[1].tickers = ofTitle

\* The title "$A" and the body "B$A": joined with nothing between them they
\* would read "$AB$A"; the post is tagged A alone
C19_Witness ==
    /\ fnPc = "return"
    /\ arg.title = <<"$","A">>
    /\ arg.selftext = Some(<<"B","$","A">>)
    /\ ret[1].tickers = <<<<"A">>>>

(***************************************************************************)
(* The accumulator of fetchMemes                                           *)
(***************************************************************************)
\* What allMemes holds of the k-th source
Contribution(k) == SelectSeq(allMemes, LAMBDA m : m.subreddit = SourceName(k))

\* C20: allMemes is appended to once per source, when the whole batch of
\* the source has been filtered and converted: in every reachable state it
\* holds, of each source, all of its accepted posts or none, and nothing of a
\* source not yet processed; a step appends to it and removes nothing before
\* fetchMemes sorts it, and the failure of a source leaves it unchanged.
C20_AllOrNothing ==
    /\ [](\A k \in DOMAIN config.subreddits :
             IF k \in DOMAIN delivered /\ ~SourceFailed(k)
             THEN SameElements(Contribution(k), Accepted(k))
                     /\ (pc \in {"loop", "await"} => Contribution(k) = Accepted(k))
             ELSE Contribution(k) = << >>)
    /\ [](pc \in {"loop", "await"} => allMemes = FetchOrder(Len(delivered)))
    /\ [][/\ errors' # errors => allMemes' = allMemes
          /\ pc = "await" => /\ Len(allMemes') >= Len(allMemes)
                             /\ SubSeq(allMemes', 1, Len(allMemes)) = allMemes
                             /\ Len(delivered') = Len(delivered) + 1]_vars

\* The first source has contributed its two accepted posts, and the second
\* has failed
C20_Witness ==
    /\ pc = "loop"
    /\ Len(delivered) = 2
    /\ ~SourceFailed(1)
    /\ SourceFailed(2)
    /\ errors = <<"stocks">>
    /\ Len(allMemes) = 2
    /\ allMemes = Accepted(1)

====
